---- MODULE Spec2Model ----
(***************************************************************************)
(* TreeTalk: the GEDCOM import pipeline (GedcomParserService) over the     *)
(* relational store (Source, Person, Relationship, Event, Place), with     *)
(* concurrent uploads, reuse of one service instance and source deletion.  *)
(*                                                                         *)
(* Store semantics the code relies on:                                     *)
(*  - every service works through one SQLAlchemy session; rows it adds are *)
(*    visible to other sessions only after its commit;                     *)
(*  - a failed flush (also the flush inside a commit) rolls the session's  *)
(*    transaction back and leaves the session inactive: every later        *)
(*    execute/flush/commit raises PendingRollbackError until rollback() is *)
(*    called;                                                              *)
(*  - Source.file_hash is unique; persons, relationships, events and       *)
(*    places are deleted with their source (ON DELETE CASCADE).            *)
(***************************************************************************)
EXTENDS Integers, Sequences, FiniteSets, TLC

\* ---------------------------------------------------------------- bounds
NumServices == 2
MaxCalls == 2
MaxDeletes == 1
MaxFaults == 2

Services == 1..NumServices

\* ---------------------------------------------------------------- values
NoId == 0
NoObj == <<0, 0>>
NoText == <<>>

Range(s) == {s[k] : k \in 1..Len(s)}

\* ================================================================ strings
\* A string is the sequence of its characters. None is told apart from
\* the empty string; both are false in a condition.
None == <<"None">>
Truthy(str) == str # None /\ str # <<>>

UpperCase == <<"A", "B", "C", "D", "E", "F", "G", "H", "I", "J", "K", "L", "M",
               "N", "O", "P", "Q", "R", "S", "T", "U", "V", "W", "X", "Y", "Z">>
LowerCase == <<"a", "b", "c", "d", "e", "f", "g", "h", "i", "j", "k", "l", "m",
               "n", "o", "p", "q", "r", "s", "t", "u", "v", "w", "x", "y", "z">>

\* str.lower()
lower(str) ==
  [k \in 1..Len(str) |->
     IF \E u \in 1..Len(UpperCase) : UpperCase[u] = str[k]
     THEN LowerCase[CHOOSE u \in 1..Len(UpperCase) : UpperCase[u] = str[k]]
     ELSE str[k]]

\* str.upper()
upper(str) ==
  [k \in 1..Len(str) |->
     IF \E u \in 1..Len(LowerCase) : LowerCase[u] = str[k]
     THEN UpperCase[CHOOSE u \in 1..Len(LowerCase) : LowerCase[u] = str[k]]
     ELSE str[k]]

\* str.strip()
RECURSIVE lstrip(_), rstrip(_)
lstrip(str) == IF str # <<>> /\ Head(str) = " " THEN lstrip(Tail(str)) ELSE str
rstrip(str) ==
  IF str # <<>> /\ str[Len(str)] = " " THEN rstrip(SubSeq(str, 1, Len(str) - 1)) ELSE str
strip(str) == rstrip(lstrip(str))

\* `sub in str`
Contains(sub, str) ==
  \E k \in 1..(Len(str) - Len(sub) + 1) : SubSeq(str, k, k + Len(sub) - 1) = sub

\* str.split(sep): the parts between the occurrences of the character.
RECURSIVE split(_, _)
split(str, sep) ==
  IF \A k \in 1..Len(str) : str[k] # sep THEN <<str>>
  ELSE LET first == CHOOSE k \in 1..Len(str) :
                      str[k] = sep /\ \A j \in 1..(k - 1) : str[j] # sep
       IN <<SubSeq(str, 1, first - 1)>> \o split(SubSeq(str, first + 1, Len(str)), sep)

\* ================================================================== dates
\* GedcomParserService._parse_date. The text of a DATE line is a sequence
\* of words, the parts the text has between its spaces; a word is a
\* sequence of atoms: a run of digits (its value n and its number of
\* digits w), a run of letters, or a punctuation character.
Num(n, w) == [t |-> "num", s |-> "", n |-> n, w |-> w]
Letters(str) == [t |-> "letters", s |-> str, n |-> 0, w |-> 0]
Punct(str) == [t |-> "punct", s |-> str, n |-> 0, w |-> 0]

\* A date, or None (ok = FALSE).
Date(y, m, d) == [ok |-> TRUE, y |-> y, m |-> m, d |-> d]
NoDate == [ok |-> FALSE, y |-> 0, m |-> 0, d |-> 0]

MonthAbbreviations ==
  <<"JAN", "FEB", "MAR", "APR", "MAY", "JUN", "JUL", "AUG", "SEP", "OCT", "NOV", "DEC">>
MonthNames ==
  <<"JANUARY", "FEBRUARY", "MARCH", "APRIL", "MAY", "JUNE", "JULY", "AUGUST",
    "SEPTEMBER", "OCTOBER", "NOVEMBER", "DECEMBER">>

\* The letter runs of the model in lower or mixed case, and their upper case.
UpperWords ==
  [abt |-> "ABT", about |-> "ABOUT", feb |-> "FEB", Feb |-> "FEB", bef |-> "BEF",
   February |-> "FEBRUARY", Estimated |-> "ESTIMATED"]

\* str.upper() of a date text
date_upper(text) ==
  [c \in 1..Len(text) |->
     [k \in 1..Len(text[c]) |->
        IF text[c][k].t = "letters" /\ text[c][k].s \in DOMAIN UpperWords
        THEN Letters(UpperWords[text[c][k].s])
        ELSE text[c][k]]]

IsMonth(str) == str \in Range(MonthAbbreviations) \cup Range(MonthNames)
month_names(str) ==
  IF str \in Range(MonthAbbreviations)
  THEN CHOOSE k \in 1..12 : MonthAbbreviations[k] = str
  ELSE CHOOSE k \in 1..12 : MonthNames[k] = str

\* datetime(year, month, day) raises ValueError outside these ranges.
IsLeap(y) == (y % 4 = 0 /\ y % 100 # 0) \/ y % 400 = 0
DaysIn(y, m) ==
  IF m = 2 THEN (IF IsLeap(y) THEN 29 ELSE 28)
  ELSE IF m \in {4, 6, 9, 11} THEN 30 ELSE 31
ValidDate(y, m, d) ==
  y >= 1 /\ y <= 9999 /\ m >= 1 /\ m <= 12 /\ d >= 1 /\ d <= DaysIn(y, m)

\* The qualifiers that _normalize_date_string removes (line 553).
qualifiers == {"ABT", "ABOUT", "EST", "CAL", "CALCULATED", "BEF", "BEFORE", "AFT", "AFTER"}

IsWord(word, str) == Len(word) = 1 /\ word[1].t # "num" /\ word[1].s = str

\* ' STR ' in date_str: the word str with a word before and a word after it.
Inside(text, str) == \E c \in 2..(Len(text) - 1) : IsWord(text[c], str)

\* date_str.split(' STR ')[0]: the words before the first such word.
Before(text, str) ==
  LET first == CHOOSE c \in 2..(Len(text) - 1) :
                 IsWord(text[c], str) /\ \A j \in 2..(c - 1) : ~IsWord(text[j], str)
  IN SubSeq(text, 1, first - 1)

\* date_str.replace('BET ', '')
RECURSIVE WithoutBET(_)
WithoutBET(text) ==
  IF Len(text) <= 1 THEN text
  ELSE IF IsWord(Head(text), "BET") THEN WithoutBET(Tail(text))
  ELSE <<Head(text)>> \o WithoutBET(Tail(text))

\* _normalize_date_string (lines 544-568)
_normalize_date_string(date_str) ==
  LET up == date_upper(date_str)
      unqualified ==
        IF Len(up) >= 2 /\ \E q \in qualifiers : IsWord(up[1], q) THEN Tail(up) ELSE up
  IN IF Inside(unqualified, "TO") THEN Before(unqualified, "TO")
     ELSE IF Inside(unqualified, "-") THEN Before(unqualified, "-")
     ELSE IF (\E c \in 1..(Len(unqualified) - 1) : IsWord(unqualified[c], "BET"))
             /\ Inside(unqualified, "AND")
     THEN LET rest == WithoutBET(unqualified)
          IN IF Inside(rest, "AND") THEN Before(rest, "AND") ELSE rest
     ELSE unqualified

\* The formats of strptime, in the order of the list (lines 579-616): a
\* format is the sequence of its words, a word the sequence of its
\* directives and punctuation.
date_formats ==
  << << <<"d">>, <<"b">>, <<"Y">> >>,
     << <<"d">>, <<"B">>, <<"Y">> >>,
     << <<"b">>, <<"d">>, <<"Y">> >>,
     << <<"B">>, <<"d">>, <<"Y">> >>,
     << <<"d", "/", "m", "/", "Y">> >>,
     << <<"m", "/", "d", "/", "Y">> >>,
     << <<"Y", "-", "m", "-", "d">> >>,
     << <<"d", "-", "m", "-", "Y">> >>,
     << <<"m", "-", "d", "-", "Y">> >>,
     << <<"d", ".", "m", ".", "Y">> >>,
     << <<"d">>, <<"m">>, <<"Y">> >>,
     << <<"d">>, <<"b", ",">>, <<"Y">> >>,
     << <<"b">>, <<"d", ",">>, <<"Y">> >>,
     << <<"d", "-", "b", "-", "Y">> >>,
     << <<"b", "-", "d", "-", "Y">> >>,
     << <<"d">>, <<"b">>, <<"y">> >>,
     << <<"m", "/", "d", "/", "y">> >>,
     << <<"d", "/", "m", "/", "y">> >>,
     << <<"Y", ".", "m", ".", "d">> >>,
     << <<"d", ".", "m", ".", "y">> >>,
     << <<"b">>, <<"Y">> >>,
     << <<"B">>, <<"Y">> >>,
     << <<"m", "/", "Y">> >>,
     << <<"Y", "-", "m">> >>,
     << <<"m">>, <<"Y">> >>,
     << <<"b">>, <<"y">> >>,
     << <<"m", "/", "y">> >>,
     << <<"Y">> >>,
     << <<"y">> >> >>

\* One directive of strptime against one atom of the text.
DirectiveMatches(directive, atom) ==
  CASE directive = "d" -> atom.t = "num" /\ atom.w \in {1, 2} /\ atom.n >= 1 /\ atom.n <= 31
    [] directive = "m" -> atom.t = "num" /\ atom.w \in {1, 2} /\ atom.n >= 1 /\ atom.n <= 12
    [] directive = "Y" -> atom.t = "num" /\ atom.w = 4
    [] directive = "y" -> atom.t = "num" /\ atom.w = 2
    [] directive = "b" -> atom.t = "letters" /\ atom.s \in Range(MonthAbbreviations)
    [] directive = "B" -> atom.t = "letters" /\ atom.s \in Range(MonthNames)
    [] OTHER -> atom.t = "punct" /\ atom.s = directive

FormatMatches(fmt, text) ==
  /\ Len(fmt) = Len(text)
  /\ \A c \in 1..Len(fmt) :
       /\ Len(fmt[c]) = Len(text[c])
       /\ \A k \in 1..Len(fmt[c]) : DirectiveMatches(fmt[c][k], text[c][k])

\* The atoms of the text that a set of directives matched.
Matched(fmt, text, directives) ==
  {text[x[1]][x[2]] :
     x \in {y \in (1..Len(fmt)) \X (1..5) :
              y[2] <= Len(fmt[y[1]]) /\ fmt[y[1]][y[2]] \in directives}}

\* datetime.strptime(date_str, fmt).date(): the date, or NoDate for
\* ValueError. A field without a directive has strptime's default.
strptime(text, fmt) ==
  IF ~FormatMatches(fmt, text) THEN NoDate
  ELSE LET days == Matched(fmt, text, {"d"})
           months == Matched(fmt, text, {"m", "b", "B"})
           years == Matched(fmt, text, {"Y", "y"})
           d == IF days = {} THEN 1 ELSE (CHOOSE a \in days : TRUE).n
           m == IF months = {} THEN 1
                ELSE LET a == CHOOSE a \in months : TRUE
                     IN IF a.t = "num" THEN a.n ELSE month_names(a.s)
           y == LET a == CHOOSE a \in years : TRUE
                IN IF a.w = 4 THEN a.n
                   ELSE IF a.n < 69 THEN 2000 + a.n ELSE 1900 + a.n
       IN IF ValidDate(y, m, d) THEN Date(y, m, d) ELSE NoDate

\* The first format of the list, from the k-th on, that parses the text.
RECURSIVE FirstFormat(_, _)
FirstFormat(text, k) ==
  IF k > Len(date_formats) THEN NoDate
  ELSE IF strptime(text, date_formats[k]).ok THEN strptime(text, date_formats[k])
  ELSE FirstFormat(text, k + 1)

\* The first four digits of a run of four digits or more.
RECURSIVE FirstFour(_, _)
FirstFour(n, w) == IF w <= 4 THEN n ELSE FirstFour(n \div 10, w - 1)

\* re.search of day_month_year_pattern (line 630): digits, spaces, a month
\* name, spaces, four digits; the leftmost match. It takes the last two
\* digits of a longer run of digits.
DayMonthYear(text) ==
  LET at == {c \in 1..(Len(text) - 2) :
               /\ text[c][Len(text[c])].t = "num"
               /\ Len(text[c + 1]) = 1 /\ text[c + 1][1].t = "letters"
               /\ IsMonth(text[c + 1][1].s)
               /\ text[c + 2][1].t = "num" /\ text[c + 2][1].w >= 4}
  IN IF at = {} THEN NoDate
     ELSE LET c == CHOOSE x \in at : \A z \in at : x <= z
              day == text[c][Len(text[c])].n % 100
              year == FirstFour(text[c + 2][1].n, text[c + 2][1].w)
              month_num == month_names(text[c + 1][1].s)
          IN IF ValidDate(year, month_num, day) THEN Date(year, month_num, day)
             ELSE NoDate

\* re.search of month_year_pattern (line 655): a month name, spaces, four
\* digits.
MonthYear(text) ==
  LET at == {c \in 1..(Len(text) - 1) :
               /\ text[c][Len(text[c])].t = "letters"
               /\ IsMonth(text[c][Len(text[c])].s)
               /\ text[c + 1][1].t = "num" /\ text[c + 1][1].w >= 4}
  IN IF at = {} THEN NoDate
     ELSE LET c == CHOOSE x \in at : \A z \in at : x <= z
              year == FirstFour(text[c + 1][1].n, text[c + 1][1].w)
              month_num == month_names(text[c][Len(text[c])].s)
          IN IF ValidDate(year, month_num, 1) THEN Date(year, month_num, 1) ELSE NoDate

\* re.search(r'\b(1[5-9]\d{2}|20\d{2})\b') (line 674): the leftmost run of
\* exactly four digits from 1500 to 2099 with no letter next to it.
YearOnly(text) ==
  LET at == {x \in (1..Len(text)) \X (1..5) :
               /\ x[2] <= Len(text[x[1]])
               /\ text[x[1]][x[2]].t = "num" /\ text[x[1]][x[2]].w = 4
               /\ text[x[1]][x[2]].n >= 1500 /\ text[x[1]][x[2]].n <= 2099
               /\ x[2] > 1 => text[x[1]][x[2] - 1].t = "punct"
               /\ x[2] < Len(text[x[1]]) => text[x[1]][x[2] + 1].t = "punct"}
  IN IF at = {} THEN NoDate
     ELSE LET x == CHOOSE a \in at :
                     \A z \in at : a[1] < z[1] \/ (a[1] = z[1] /\ a[2] <= z[2])
          IN Date(text[x[1]][x[2]].n, 1, 1)

\* _parse_date_formats (lines 570-687)
_parse_date_formats(date_str) ==
  IF date_str = <<>> THEN NoDate
  ELSE IF FirstFormat(date_str, 1).ok THEN FirstFormat(date_str, 1)
  ELSE IF DayMonthYear(date_str).ok THEN DayMonthYear(date_str)
  ELSE IF MonthYear(date_str).ok THEN MonthYear(date_str)
  ELSE YearOnly(date_str)

\* _parse_date (lines 494-513) of the value of one DATE line; every
\* exception ends as None.
_parse_date(date_str) ==
  IF date_str = <<>> THEN NoDate
  ELSE _parse_date_formats(_normalize_date_string(date_str))

\* ============================================================ INDI records
\* What _import_individual reads from the child elements of an INDI
\* record (lines 216-250). A record has the value of its NAME line and of
\* its SEX line (None when it has no such line) and the text of the DATE
\* line of its BIRT and DEAT structures (no word when there is none).
name_parts(value) == split(value, "/")

\* A reading that keeps the whole value, and the empty string for no name.
GivenNames_whole(individual) ==
  IF Truthy(individual.name) THEN strip(individual.name) ELSE <<>>

GivenNames(individual) ==
  IF Truthy(individual.name) THEN strip(name_parts(individual.name)[1]) ELSE None

Surname(individual) ==
  IF Truthy(individual.name) /\ Len(name_parts(individual.name)) > 1
  THEN strip(name_parts(individual.name)[2])
  ELSE None

\* value.upper()[:1] if value else None
Gender(individual) ==
  IF Truthy(individual.sex) THEN SubSeq(upper(individual.sex), 1, 1) ELSE None

\* The columns of the Person that line 253 builds.
PersonColumns(individual) ==
  [ given_names |-> GivenNames(individual),
    surname |-> Surname(individual),
    gender |-> Gender(individual),
    birth_date |-> _parse_date(individual.birth_date),
    death_date |-> _parse_date(individual.death_date),
    is_living |-> ~_parse_date(individual.death_date).ok ]

\* Person.is_valid_gender
is_valid_gender(person) == person.gender \in {<<"M">>, <<"F">>, <<"U">>, None}

\* ================================================================= uploads
\* The uploads: file bytes and the filename they are sent under.
\* family.ged is the two-generation file (husband I1, wife I2, child I3);
\* cousins.ged has a reference to a missing individual, a repeated CHIL
\* and a second HUSB line; broken.ged is not GEDCOM syntax; empty.ged has
\* no bytes. size is the number of bytes. An individual has its pointer,
\* the values of its NAME and SEX lines (None without the line), the texts
\* of its BIRT and DEAT dates and its birth place.
Individual(ptr, name, sex, birth_date, death_date, birth_place) ==
  [ptr |-> ptr, name |-> name, sex |-> sex, birth_date |-> birth_date,
   death_date |-> death_date, birth_place |-> birth_place]

GedcomFiles ==
  [ family |->
      [ wellformed |-> TRUE, size |-> 412,
        individuals |->
          << Individual("@I1@", <<"J", "o", "h", "n", " ", "/", "S", "m", "i", "t", "h", "/">>, <<"M">>, << <<Num(1990, 4)>> >>, <<>>, "Paris"),
             Individual("@I2@", None, <<"F">>, <<>>, <<>>, ""),
             Individual("@I3@", <<>>, None, <<>>, <<>>, "Paris") >>,
        families |-> << [ptr |-> "@F1@",
                         children |-> << <<"HUSB", "@I1@">>, <<"WIFE", "@I2@">>,
                                         <<"CHIL", "@I3@">> >>] >> ],
    cousins |->
      [ wellformed |-> TRUE, size |-> 305,
        individuals |->
          << Individual("@I1@", <<"M", "a", "r", "y">>, <<"f">>, <<>>, <<>>, "Paris"),
             Individual("@I4@", <<"J", "o", "h", "n", " ", "/", "S", "m", "i", "t", "h", "/">>, None, <<>>, << <<Num(1950, 4)>> >>, "") >>,
        families |-> << [ptr |-> "@F2@",
                         children |-> << <<"HUSB", "@I9@">>, <<"HUSB", "@I1@">>,
                                         <<"WIFE", "@I2@">>, <<"CHIL", "@I4@">>,
                                         <<"CHIL", "@I4@">> >>] >> ],
    broken |->
      [ wellformed |-> FALSE, size |-> 17, individuals |-> <<>>, families |-> <<>> ],
    empty |->
      [ wellformed |-> TRUE, size |-> 0, individuals |-> <<>>, families |-> <<>> ] ]

Uploads ==
  { [content |-> "family", filename |-> "family.ged"],
    [content |-> "cousins", filename |-> "cousins.ged"],
    [content |-> "broken", filename |-> "broken.ged"] }

NoUpload == [content |-> "", filename |-> ""]

\* An upload of no bytes, which only the upload route is given.
EmptyFile == [content |-> "empty", filename |-> "empty.ged"]

\* ---------------------------------------------------------------- state
VARIABLES
  sources,        \* committed Source rows: id -> row
  persons,        \* committed Person rows
  relationships,  \* committed Relationship rows
  events,         \* committed Event rows
  places,         \* committed Place rows
  sourceSeq,      \* number of Source ids handed out (uuid4 is fresh)
  removed,        \* ids of the sources deleted by a delete request
  calls,          \* number of parse_and_import_file calls started
  pc,             \* per service: position of the running call
  upload,         \* per service: arguments of the running call
  idx,            \* per service: index of the next INDI / FAM element
  stats,          \* per service: the statistics dictionary of the call
  outcome,        \* per service: how the call ended
  existing,       \* per service: source found by _check_duplicate_import
  created,        \* per service: source created by the running call
  failed,         \* per service: GEDCOM ids of the records that failed
  faults,         \* number of failures of a record or of a commit so far
  objseq,         \* per service: objects constructed by the running call
  source_record,  \* per service: self.source_record (in-memory object)
  person_map,     \* per service: self.person_map
  place_cache,    \* per service: self.place_cache
  session,        \* per service: self.db
  request,        \* the query being served: operation and arguments
  response,       \* what the query returned or raised
  qpc,            \* position of the query
  generation,     \* _get_related_persons: the loop variable
  visited_persons,    \* _get_related_persons: ids already expanded
  current_generation, \* _get_related_persons: the frontier
  all_persons,    \* _get_related_persons: the persons collected, in order
  demo_persons    \* FamilyDataService.persons_dict: id -> Person

dbvars == <<sources, persons, relationships, events, places, sourceSeq, removed>>
callvars == <<calls, pc, upload, idx, stats, outcome, existing, created, failed,
              faults, objseq>>
svcvars == <<source_record, person_map, place_cache, session>>
qvars == <<request, response, qpc, generation, visited_persons, current_generation,
           all_persons, demo_persons>>
vars == <<dbvars, callvars, svcvars, qvars>>

\* hashlib.sha256(content).hexdigest(): distinct contents, distinct digests
_calculate_file_hash(content) ==
  CASE content = "family" -> "9f2c"
    [] content = "cousins" -> "41ab"
    [] content = "broken" -> "e07d"
    [] content = "empty" -> "e3b0"
    [] OTHER -> "0000"

\* A Session with nothing pending: new holds the Source objects added and
\* not yet inserted, persons/places the rows flushed and not yet committed,
\* relationships/events the objects added and not yet flushed, dirty the
\* modified attributes of self.source_record.
NewSession ==
  [ active |-> TRUE, new |-> {}, persons |-> {}, relationships |-> {},
    events |-> {}, places |-> {}, dirty |-> {} ]

NoSource ==
  [ id |-> NoId, name |-> "", file_hash |-> "", status |-> "", persons_count |-> 0,
    families_count |-> 0, error_message |-> NoText, notes |-> NoText ]

NewStats ==
  [ persons_imported |-> 0, relationships_imported |-> 0, events_imported |-> 0,
    places_imported |-> 0, errors |-> <<>> ]

NoOutcome == [kind |-> "none", exc |-> "", text |-> NoText]
Returned == [kind |-> "returned", exc |-> "", text |-> NoText]
Raised(exc, text) == [kind |-> "raised", exc |-> exc, text |-> text]

\* GedcomParserService.__init__
ServiceInit ==
  [ source_record |-> NoSource, person_map |-> <<>>, place_cache |-> <<>>,
    session |-> NewSession ]

\* No query has been made.
NoRequest == [op |-> "none"]
NoResponse == [kind |-> "none"]

QueryInit ==
  /\ request = NoRequest
  /\ response = NoResponse
  /\ qpc = "idle"
  /\ generation = 0
  /\ visited_persons = {}
  /\ current_generation = {}
  /\ all_persons = <<>>

Init ==
  /\ demo_persons = <<>>
  /\ QueryInit
  /\ sources = <<>>
  /\ persons = {}
  /\ relationships = {}
  /\ events = {}
  /\ places = {}
  /\ sourceSeq = 0
  /\ removed = {}
  /\ calls = 0
  /\ pc = [i \in Services |-> "idle"]
  /\ upload = [i \in Services |-> NoUpload]
  /\ idx = [i \in Services |-> 0]
  /\ stats = [i \in Services |-> NewStats]
  /\ outcome = [i \in Services |-> NoOutcome]
  /\ existing = [i \in Services |-> NoId]
  /\ created = [i \in Services |-> NoId]
  /\ failed = [i \in Services |-> {}]
  /\ faults = 0
  /\ objseq = [i \in Services |-> 0]
  /\ source_record = [i \in Services |-> ServiceInit.source_record]
  /\ person_map = [i \in Services |-> ServiceInit.person_map]
  /\ place_cache = [i \in Services |-> ServiceInit.place_cache]
  /\ session = [i \in Services |-> ServiceInit.session]

\* ------------------------------------------------------------- the store
Store ==
  [ sources |-> sources, persons |-> persons, relationships |-> relationships,
    events |-> events, places |-> places ]

Ids(rows) == {r.id : r \in rows}

\* Source(name=, filename=, file_hash=, status=) with the column defaults
Source(id, name, file_hash, status) ==
  [ id |-> id, name |-> name, file_hash |-> file_hash, status |-> status,
    persons_count |-> 0, families_count |-> 0, error_message |-> NoText,
    notes |-> NoText ]

\* A mark_completed that stores the two counts the other way round.
mark_completed_swapped(src, persons_count, families_count) ==
  [src EXCEPT !.status = "completed", !.persons_count = families_count,
              !.families_count = persons_count]

\* Source.mark_completed
mark_completed(src, persons_count, families_count) ==
  [src EXCEPT !.status = "completed", !.persons_count = persons_count,
              !.families_count = families_count]

\* Source.mark_error
mark_error(src, error_message) ==
  [src EXCEPT !.status = "error", !.error_message = error_message]

\* A store without the unique constraint on file_hash.
UniqueViolation_unconstrained(D, row) == FALSE

\* Column(String(64), unique=True) on Source.file_hash: an INSERT is refused
\* when a committed row already carries the hash.
UniqueViolation(D, row) ==
  \E s \in DOMAIN D.sources : D.sources[s].file_hash = row.file_hash

\* Foreign keys checked when the pending objects are flushed.
ForeignKeyViolation(D, sess) ==
  LET pids == Ids(D.persons) \cup Ids(sess.persons)
      plids == Ids(D.places) \cup Ids(sess.places)
      sids == DOMAIN D.sources \cup Ids(sess.new)
  IN \/ \E r \in sess.relationships :
          r.source_id \notin sids \/ r.person1_id \notin pids \/ r.person2_id \notin pids
     \/ \E e \in sess.events :
          \/ e.source_id \notin sids
          \/ e.person_id \notin pids
          \/ (e.place_id # NoObj /\ e.place_id \notin plids)

\* The UPDATE of a modified source_record matches no row.
StaleData(D, sess, src) == sess.dirty # {} /\ src.id \notin DOMAIN D.sources

\* What a failed flush leaves: the transaction is rolled back, the pending
\* objects are expunged and the session is inactive.
Deactivated == [NewSession EXCEPT !.active = FALSE]

\* AsyncSession.rollback
Rollback(sess) == NewSession

\* The row an UPDATE of the modified attributes of src leaves.
Updated(row, src, dirty) ==
  [f \in DOMAIN row |-> IF f \in dirty THEN src[f] ELSE row[f]]

\* AsyncSession.commit: flush everything pending, then COMMIT.  fault is
\* the store failing the commit.  The result names the exception raised
\* ("" for none), the store and the session afterwards.
Commit(D, sess, src, fault) ==
  IF ~sess.active THEN
    [exc |-> "PendingRollbackError", store |-> D, session |-> sess]
  ELSE IF \E row \in sess.new : UniqueViolation(D, row) THEN
    [exc |-> "IntegrityError", store |-> D, session |-> Deactivated]
  ELSE IF ForeignKeyViolation(D, sess) THEN
    [exc |-> "IntegrityError", store |-> D, session |-> Deactivated]
  ELSE IF StaleData(D, sess, src) THEN
    [exc |-> "StaleDataError", store |-> D, session |-> Deactivated]
  ELSE IF fault THEN
    [exc |-> "OperationalError", store |-> D, session |-> Deactivated]
  ELSE
    LET inserted == [s \in DOMAIN D.sources \cup Ids(sess.new) |->
                       IF s \in DOMAIN D.sources THEN D.sources[s]
                       ELSE CHOOSE row \in sess.new : row.id = s]
        updated == IF sess.dirty # {}
                   THEN [inserted EXCEPT ![src.id] = Updated(@, src, sess.dirty)]
                   ELSE inserted
    IN [ exc |-> "",
         store |-> [ sources |-> updated,
                     persons |-> D.persons \cup sess.persons,
                     relationships |-> D.relationships \cup sess.relationships,
                     events |-> D.events \cup sess.events,
                     places |-> D.places \cup sess.places ],
         session |-> NewSession ]

\* str(e) of the exceptions of the store and of the parser
ExcText(exc) == <<exc>>

\* The except clause of parse_and_import_file: mark self.source_record as
\* failed, commit, re-raise.  A commit that raises replaces the exception.
HandleException(D, sess, src, exc, text) ==
  IF src.id # NoId THEN
    LET marked == mark_error(src, text)
        c == Commit(D, [sess EXCEPT !.dirty = @ \cup {"status", "error_message"}],
                    marked, FALSE)
    IN [ store |-> c.store, session |-> c.session, source_record |-> marked,
         outcome |-> IF c.exc = "" THEN Raised(exc, text)
                     ELSE Raised(c.exc, ExcText(c.exc)) ]
  ELSE
    [ store |-> D, session |-> sess, source_record |-> src,
      outcome |-> Raised(exc, text) ]

SetStore(D) ==
  /\ sources' = D.sources
  /\ persons' = D.persons
  /\ relationships' = D.relationships
  /\ events' = D.events
  /\ places' = D.places

\* The call of service i ends in the except clause (lines 114-119).
Fail(i, sess, src, exc, text) ==
  LET h == HandleException(Store, sess, src, exc, text)
  IN /\ SetStore(h.store)
     /\ session' = [session EXCEPT ![i] = h.session]
     /\ source_record' = [source_record EXCEPT ![i] = h.source_record]
     /\ outcome' = [outcome EXCEPT ![i] = h.outcome]
     /\ pc' = [pc EXCEPT ![i] = "done"]

File(i) == GedcomFiles[upload[i].content]

\* ------------------------------------------------------------ the calls
BeginCall(i, u) ==
  /\ calls < MaxCalls
  /\ calls' = calls + 1
  /\ pc' = [pc EXCEPT ![i] = "check"]
  /\ upload' = [upload EXCEPT ![i] = u]
  /\ idx' = [idx EXCEPT ![i] = 0]
  /\ stats' = [stats EXCEPT ![i] = NewStats]
  /\ outcome' = [outcome EXCEPT ![i] = NoOutcome]
  /\ existing' = [existing EXCEPT ![i] = NoId]
  /\ created' = [created EXCEPT ![i] = NoId]
  /\ failed' = [failed EXCEPT ![i] = {}]
  /\ objseq' = [objseq EXCEPT ![i] = 0]
  /\ UNCHANGED <<dbvars, faults, qvars>>

\* A route that does not look at the number of bytes it has read.
EmptyFileUploaded_unchecked(u) == FALSE

\* len(file_content) == 0 (routes/gedcom.py line 62)
EmptyFileUploaded(u) == GedcomFiles[u.content].size = 0

\* The request is answered 400 before a GedcomParserService is built
\* (routes/gedcom.py lines 63-66 and 83-84).
RejectUpload(i, u) ==
  /\ calls < MaxCalls
  /\ calls' = calls + 1
  /\ pc' = [pc EXCEPT ![i] = "done"]
  /\ upload' = [upload EXCEPT ![i] = u]
  /\ idx' = [idx EXCEPT ![i] = 0]
  /\ stats' = [stats EXCEPT ![i] = NewStats]
  /\ outcome' = [outcome EXCEPT ![i] =
                   Raised("HTTPException", <<"400: ", "Empty file uploaded">>)]
  /\ existing' = [existing EXCEPT ![i] = NoId]
  /\ created' = [created EXCEPT ![i] = NoId]
  /\ failed' = [failed EXCEPT ![i] = {}]
  /\ objseq' = [objseq EXCEPT ![i] = 0]
  /\ UNCHANGED <<dbvars, faults, qvars>>

\* upload_gedcom_file: the bytes are read and an empty file is refused;
\* then a new GedcomParserService on the request's session, and
\* parse_and_import_file.
upload_gedcom_file(i, u) ==
  /\ pc[i] \in {"idle", "done"}
  /\ pc[i] = "idle" => \A j \in 1..(i - 1) : pc[j] # "idle"
  /\ IF EmptyFileUploaded(u) THEN RejectUpload(i, u) ELSE BeginCall(i, u)
  /\ source_record' = [source_record EXCEPT ![i] = ServiceInit.source_record]
  /\ person_map' = [person_map EXCEPT ![i] = ServiceInit.person_map]
  /\ place_cache' = [place_cache EXCEPT ![i] = ServiceInit.place_cache]
  /\ session' = [session EXCEPT ![i] = ServiceInit.session]

\* parse_and_import_file called again on the same GedcomParserService.
parse_and_import_file(i, u) ==
  /\ pc[i] = "done"
  /\ BeginCall(i, u)
  /\ UNCHANGED svcvars

\* Step 1: _calculate_file_hash and _check_duplicate_import.
_check_duplicate_import(i) ==
  /\ pc[i] = "check"
  /\ LET h == _calculate_file_hash(upload[i].content)
         found == {s \in DOMAIN sources : sources[s].file_hash = h}
     IN IF ~session[i].active THEN
          /\ Fail(i, session[i], source_record[i], "PendingRollbackError",
                  ExcText("PendingRollbackError"))
          /\ UNCHANGED existing
        ELSE IF found # {} THEN
          LET existing_source == sources[CHOOSE s \in found : TRUE]
          IN /\ existing' = [existing EXCEPT ![i] = existing_source.id]
             /\ Fail(i, session[i], source_record[i], "ValueError",
                     <<"File already imported: ", existing_source.name>>)
        ELSE
          /\ pc' = [pc EXCEPT ![i] = "create"]
          /\ UNCHANGED <<sources, persons, relationships, events, places,
                         session, source_record, outcome, existing>>
  /\ UNCHANGED <<sourceSeq, removed, calls, upload, idx, stats, created, failed,
                 faults, objseq, person_map, place_cache, qvars>>

\* A Source left at the column default of status.
InitialStatus_pending == "pending"

\* status="processing" of the Source that _create_source_record builds
InitialStatus == "processing"

\* Step 2: _create_source_record (add, commit, refresh).
_create_source_record(i) ==
  /\ pc[i] = "create"
  /\ LET source == Source(sourceSeq + 1, upload[i].filename,
                          _calculate_file_hash(upload[i].content), InitialStatus)
         c == Commit(Store, [session[i] EXCEPT !.new = @ \cup {source}],
                     source_record[i], FALSE)
     IN IF c.exc # "" THEN
          /\ Fail(i, c.session, source_record[i], c.exc, ExcText(c.exc))
          /\ UNCHANGED <<sourceSeq, created>>
        ELSE
          /\ SetStore(c.store)
          /\ session' = [session EXCEPT ![i] = c.session]
          /\ source_record' = [source_record EXCEPT ![i] = source]
          /\ sourceSeq' = sourceSeq + 1
          /\ created' = [created EXCEPT ![i] = source.id]
          /\ pc' = [pc EXCEPT ![i] = "parse"]
          /\ UNCHANGED outcome
  /\ UNCHANGED <<removed, calls, upload, idx, stats, existing, failed, faults,
                 objseq, person_map, place_cache, qvars>>

\* Where _import_gedcom_data goes after the element at position k of a loop.
AfterIndividuals(f, k) ==
  IF k < Len(f.individuals) THEN <<"individuals", k + 1>>
  ELSE IF Len(f.families) > 0 THEN <<"families", 1>>
  ELSE <<"commit", 0>>

AfterFamilies(f, k) ==
  IF k < Len(f.families) THEN <<"families", k + 1>> ELSE <<"commit", 0>>

\* Step 3: Parser().parse_file on the temporary copy of the bytes.
parse_file(i) ==
  /\ pc[i] = "parse"
  /\ IF ~File(i).wellformed THEN
       /\ Fail(i, session[i], source_record[i], "GedcomFormatViolationError",
               ExcText("GedcomFormatViolationError"))
       /\ UNCHANGED idx
     ELSE
       /\ pc' = [pc EXCEPT ![i] = AfterIndividuals(File(i), 0)[1]]
       /\ idx' = [idx EXCEPT ![i] = AfterIndividuals(File(i), 0)[2]]
       /\ UNCHANGED <<sources, persons, relationships, events, places, session,
                      source_record, outcome>>
  /\ UNCHANGED <<sourceSeq, removed, calls, upload, stats, existing, created,
                 failed, faults, objseq, person_map, place_cache, qvars>>

\* uuid4 primary keys: the k-th object built by the import of source sid.
NewObj(sid, k) == <<sid, k>>

\* dict.get / dict item assignment
Get(map, key) == IF key \in DOMAIN map THEN map[key] ELSE NoObj
Put(map, key, value) ==
  [x \in DOMAIN map \cup {key} |-> IF x = key THEN value ELSE map[x]]

\* _get_or_create_place: the cache, then a Place of that name in the store
\* (any source; scalar_one_or_none raises when it finds several), else a
\* new Place of this source.
_get_or_create_place(D, sess, cache, sid, place_name, k) ==
  LET visible == {p \in D.places \cup sess.places : p.name = place_name}
  IN IF place_name \in DOMAIN cache THEN
       [raised |-> FALSE, place |-> cache[place_name], session |-> sess,
        place_cache |-> cache, objseq |-> k]
     ELSE IF Cardinality(visible) > 1 THEN
       [raised |-> TRUE, place |-> NoObj, session |-> sess,
        place_cache |-> cache, objseq |-> k]
     ELSE IF visible # {} THEN
       LET place == CHOOSE p \in visible : TRUE
       IN [raised |-> FALSE, place |-> place.id, session |-> sess,
           place_cache |-> Put(cache, place_name, place.id), objseq |-> k]
     ELSE
       LET place == [id |-> NewObj(sid, k + 1), source_id |-> sid,
                     name |-> place_name]
       IN [raised |-> FALSE, place |-> place.id,
           session |-> [sess EXCEPT !.places = @ \cup {place}],
           place_cache |-> Put(cache, place_name, place.id), objseq |-> k + 1]

\* _import_person_events: the birth event of a person with a birth place;
\* an exception is logged and swallowed.
_import_person_events(D, sess, cache, sid, person, birth_place, k) ==
  IF birth_place = "" THEN
    [session |-> sess, place_cache |-> cache, objseq |-> k]
  ELSE
    LET g == _get_or_create_place(D, sess, cache, sid, birth_place, k)
        birth_event == [id |-> NewObj(sid, g.objseq + 1), source_id |-> sid,
                        person_id |-> person, event_type |-> "birth",
                        place_id |-> g.place]
    IN IF g.raised THEN
         [session |-> sess, place_cache |-> cache, objseq |-> k]
       ELSE
         [session |-> [g.session EXCEPT !.events = @ \cup {birth_event}],
          place_cache |-> g.place_cache, objseq |-> g.objseq + 1]

\* _import_individual: build the Person, add and flush it, record it in
\* person_map, import its events.  fault is "build" (extracting the record
\* or constructing the Person raises), "flush" (the store refuses the
\* INSERT) or "none".  Every exception is caught here (lines 275-277): the
\* result is the person, or NoObj for None, and the call never raises.
_import_individual(D, sess, pmap, cache, src, individual, k, fault) ==
  LET unchanged == [raised |-> FALSE, text |-> NoText, person |-> NoObj,
                    session |-> sess, person_map |-> pmap,
                    place_cache |-> cache, objseq |-> k]
      person == [id |-> NewObj(src.id, k + 1), source_id |-> src.id,
                 gedcom_id |-> individual.ptr] @@ PersonColumns(individual)
  IN IF fault = "build" THEN unchanged
     ELSE IF ~sess.active THEN unchanged
     ELSE IF fault = "flush" \/ src.id \notin DOMAIN D.sources THEN
       [unchanged EXCEPT !.session = Deactivated]
     ELSE
       LET ev == _import_person_events(D, [sess EXCEPT !.persons = @ \cup {person}],
                                       cache, src.id, person.id,
                                       individual.birth_place, k + 1)
       IN [raised |-> FALSE, text |-> NoText, person |-> person.id,
           session |-> ev.session,
           person_map |-> Put(pmap, individual.ptr, person.id),
           place_cache |-> ev.place_cache, objseq |-> ev.objseq]

\* The last value of a tag among the child elements ("" for None), and all
\* the values of a tag in file order.
LastValue(children, tag) ==
  LET at == {k \in 1..Len(children) : children[k][1] = tag}
  IN IF at = {} THEN ""
     ELSE children[CHOOSE k \in at : \A m \in at : m <= k][2]

AllValues(children, tag) ==
  SelectSeq(children, LAMBDA c : c[1] = tag)

\* [f(x) for x in seq]
RECURSIVE Concat(_)
Concat(seqs) == IF seqs = <<>> THEN <<>> ELSE Head(seqs) \o Concat(Tail(seqs))

\* A parent-child Relationship with the child as person1.
ParentChildRelationship_swapped(sid, parent, child_person) ==
  [ source_id |-> sid, person1_id |-> child_person, person2_id |-> parent,
    relationship_type |-> "parent-child" ]

\* Relationship(person1_id=parent.id, person2_id=child_person.id,
\* relationship_type="parent-child") of lines 346-353
ParentChildRelationship(sid, parent, child_person) ==
  [ source_id |-> sid, person1_id |-> parent, person2_id |-> child_person,
    relationship_type |-> "parent-child" ]

\* The relationships _import_family builds for one FAM element, in the
\* order they are built (the spouse relationship, then parent x child for
\* each CHIL).
FamilyRelationships(pmap, sid, family) ==
  LET husband_id == LastValue(family.children, "HUSB")
      wife_id == LastValue(family.children, "WIFE")
      children_ids == AllValues(family.children, "CHIL")
      husband_person == Get(pmap, husband_id)
      wife_person == Get(pmap, wife_id)
      spouse == IF husband_id # "" /\ wife_id # "" /\ husband_person # NoObj
                   /\ wife_person # NoObj
                THEN << [source_id |-> sid, person1_id |-> husband_person,
                         person2_id |-> wife_person,
                         relationship_type |-> "spouse"] >>
                ELSE <<>>
      parents == (IF husband_id # "" /\ husband_id \in DOMAIN pmap
                  THEN <<pmap[husband_id]>> ELSE <<>>)
                 \o (IF wife_id # "" /\ wife_id \in DOMAIN pmap
                     THEN <<pmap[wife_id]>> ELSE <<>>)
      OfChild(c) ==
        LET child_person == Get(pmap, c[2])
        IN IF child_person = NoObj THEN <<>>
           ELSE [n \in 1..Len(parents) |->
                   ParentChildRelationship(sid, parents[n], child_person)]
  IN spouse \o Concat([n \in 1..Len(children_ids) |-> OfChild(children_ids[n])])

\* _import_family: with fault "build" extracting the element raises; the
\* exception is caught here (lines 360-362), the result is [] and the call
\* never raises.
_import_family(pmap, sid, family, fault) ==
  [ raised |-> FALSE, text |-> NoText,
    relationships |-> IF fault = "build" THEN <<>>
                      ELSE FamilyRelationships(pmap, sid, family) ]

\* db.add of the relationships built: each gets its own primary key.
AddRelationships(sess, rels, sid, k) ==
  [sess EXCEPT !.relationships =
     @ \cup {[id |-> NewObj(sid, k + n), source_id |-> rels[n].source_id,
              person1_id |-> rels[n].person1_id,
              person2_id |-> rels[n].person2_id,
              relationship_type |-> rels[n].relationship_type]
             : n \in 1..Len(rels)}]

\* The failures a step may meet: none, or one more while the run has had
\* fewer than MaxFaults of them.
IndividualFaults == {"none"} \cup (IF faults < MaxFaults THEN {"build", "flush"} ELSE {})
FamilyFaults == {"none"} \cup (IF faults < MaxFaults THEN {"build"} ELSE {})
CommitFaults == {FALSE} \cup (IF faults < MaxFaults THEN {TRUE} ELSE {})

\* Step 4, one pass of the loop over the INDI elements (lines 170-177).
ImportIndividual(i) ==
  /\ pc[i] = "individuals"
  /\ \E fault \in IndividualFaults :
       LET individual == File(i).individuals[idx[i]]
       IN \E r \in {_import_individual(Store, session[i], person_map[i], place_cache[i],
                                       source_record[i], individual, objseq[i], fault)} :
          /\ session' = [session EXCEPT ![i] = r.session]
          /\ person_map' = [person_map EXCEPT ![i] = r.person_map]
          /\ place_cache' = [place_cache EXCEPT ![i] = r.place_cache]
          /\ objseq' = [objseq EXCEPT ![i] = r.objseq]
          /\ stats' = [stats EXCEPT
                         ![i].persons_imported =
                           IF ~r.raised /\ r.person # NoObj THEN @ + 1 ELSE @,
                         ![i].errors =
                           IF r.raised
                           THEN Append(@, <<"Person import error: ">> \o r.text)
                           ELSE @]
          /\ failed' = [failed EXCEPT ![i] =
                         IF r.person = NoObj THEN @ \cup {individual.ptr} ELSE @]
          /\ faults' = IF fault = "none" THEN faults ELSE faults + 1
  /\ pc' = [pc EXCEPT ![i] = AfterIndividuals(File(i), idx[i])[1]]
  /\ idx' = [idx EXCEPT ![i] = AfterIndividuals(File(i), idx[i])[2]]
  /\ UNCHANGED <<dbvars, calls, upload, outcome, existing, created, source_record,
                 qvars>>

\* Step 5, one pass of the loop over the FAM elements (lines 184-190).
ImportFamily(i) ==
  /\ pc[i] = "families"
  /\ \E fault \in FamilyFaults :
       LET family == File(i).families[idx[i]]
           r == _import_family(person_map[i], source_record[i].id, family, fault)
           rels == IF r.raised THEN <<>> ELSE r.relationships
       IN /\ session' = [session EXCEPT ![i] =
                           AddRelationships(@, rels, source_record[i].id, objseq[i])]
          /\ objseq' = [objseq EXCEPT ![i] = @ + Len(rels)]
          /\ stats' = [stats EXCEPT
                         ![i].relationships_imported = @ + Len(rels),
                         ![i].errors =
                           IF r.raised
                           THEN Append(@, <<"Family import error: ">> \o r.text)
                           ELSE @]
          /\ failed' = [failed EXCEPT ![i] =
                          IF fault = "build" THEN @ \cup {family.ptr} ELSE @]
          /\ faults' = IF fault = "none" THEN faults ELSE faults + 1
  /\ pc' = [pc EXCEPT ![i] = AfterFamilies(File(i), idx[i])[1]]
  /\ idx' = [idx EXCEPT ![i] = AfterFamilies(File(i), idx[i])[2]]
  /\ UNCHANGED <<dbvars, calls, upload, outcome, existing, created, source_record,
                 person_map, place_cache, qvars>>

\* The except clause of _import_gedcom_data: rollback, re-raise.
import_gedcom_data_except(sess) == Rollback(sess)

\* An except clause of _finalize_import that rolls back as the one of
\* _import_gedcom_data does.
finalize_import_except_rollback(sess) == Rollback(sess)

\* The except clause of _finalize_import: log, re-raise (no rollback).
finalize_import_except(sess) == sess

\* The end of _import_gedcom_data (lines 192-202): count the places, commit
\* all changes; on an exception roll back and re-raise.
CommitData(i) ==
  /\ pc[i] = "commit"
  /\ stats' = [stats EXCEPT ![i].places_imported = Cardinality(DOMAIN place_cache[i])]
  /\ \E fault \in CommitFaults :
       LET c == Commit(Store, session[i], source_record[i], fault)
       IN /\ faults' = IF fault THEN faults + 1 ELSE faults
          /\ IF c.exc # "" THEN
               Fail(i, import_gedcom_data_except(c.session), source_record[i], c.exc,
                    ExcText(c.exc))
             ELSE
               /\ SetStore(c.store)
               /\ session' = [session EXCEPT ![i] = c.session]
               /\ pc' = [pc EXCEPT ![i] = "finalize"]
               /\ UNCHANGED <<source_record, outcome>>
  /\ UNCHANGED <<sourceSeq, removed, calls, upload, idx, existing, created, failed,
                 objseq, person_map, place_cache, qvars>>

\* Step 5 of parse_and_import_file: _finalize_import, then return.
_finalize_import(i) ==
  /\ pc[i] = "finalize"
  /\ \E fault \in CommitFaults :
       LET completed == mark_completed(source_record[i], stats[i].persons_imported,
                                       stats[i].relationships_imported)
           noted == IF stats[i].errors # <<>>
                    THEN [completed EXCEPT !.notes = <<"errors occurred during import">>]
                    ELSE completed
           dirty == {"status", "persons_count", "families_count"}
                    \cup (IF stats[i].errors # <<>> THEN {"notes"} ELSE {})
           c == Commit(Store, [session[i] EXCEPT !.dirty = @ \cup dirty], noted, fault)
       IN /\ faults' = IF fault THEN faults + 1 ELSE faults
          /\ IF c.exc # "" THEN
               Fail(i, finalize_import_except(c.session), noted, c.exc, ExcText(c.exc))
             ELSE
               /\ SetStore(c.store)
               /\ session' = [session EXCEPT ![i] = c.session]
               /\ source_record' = [source_record EXCEPT ![i] = noted]
               /\ outcome' = [outcome EXCEPT ![i] = Returned]
               /\ pc' = [pc EXCEPT ![i] = "done"]
  /\ UNCHANGED <<sourceSeq, removed, calls, upload, idx, stats, existing, created,
                 failed, objseq, person_map, place_cache, qvars>>

\* delete_gedcom_source: DELETE of the Source row; the foreign keys cascade
\* from the source to its persons, relationships, events and places, and
\* from a person to the relationships and events that refer to it.  The
\* DELETE waits while another transaction holds uncommitted rows that refer
\* to a row it removes, and is refused while an event that stays refers to
\* a place it removes.
delete_gedcom_source(s) ==
  LET gonePersons == {p \in persons : p.source_id = s}
      gonePlaces == {p \in places : p.source_id = s}
      goneRels == {r \in relationships :
                     r.source_id = s \/ r.person1_id \in Ids(gonePersons)
                       \/ r.person2_id \in Ids(gonePersons)}
      goneEvents == {e \in events : e.source_id = s \/ e.person_id \in Ids(gonePersons)}
      Refers(sess) ==
        \/ \E p \in sess.persons \cup sess.places : p.source_id = s
  IN /\ s \in DOMAIN sources
     /\ Cardinality(removed) < MaxDeletes
     /\ \A i \in Services : ~Refers(session[i])
     /\ \A e \in events \ goneEvents : e.place_id \notin Ids(gonePlaces)
     /\ sources' = [x \in DOMAIN sources \ {s} |-> sources[x]]
     /\ persons' = persons \ gonePersons
     /\ relationships' = relationships \ goneRels
     /\ events' = events \ goneEvents
     /\ places' = places \ gonePlaces
     /\ removed' = removed \cup {s}
     /\ UNCHANGED <<sourceSeq, callvars, svcvars, qvars>>

Next ==
  \/ \E i \in Services, u \in Uploads \cup {EmptyFile} : upload_gedcom_file(i, u)
  \/ \E i \in Services, u \in Uploads : parse_and_import_file(i, u)
  \/ \E i \in Services : _check_duplicate_import(i)
  \/ \E i \in Services : _create_source_record(i)
  \/ \E i \in Services : parse_file(i)
  \/ \E i \in Services : ImportIndividual(i)
  \/ \E i \in Services : ImportFamily(i)
  \/ \E i \in Services : CommitData(i)
  \/ \E i \in Services : _finalize_import(i)
  \/ \E s \in DOMAIN sources : delete_gedcom_source(s)

Spec == Init /\ [][Next]_vars


\* ============================================================ FamilyService
\* The queries of FamilyService over a store of persons and relationships.

MaxGenerations == 3

\* The store the queries run on: persons A, B, C of source 1 and D of
\* source 2, and any subset of the relationships below (a parent-child
\* cycle A-B, a self-loop on A, relationships recorded under the other
\* source, both stored directions).
PersonA == <<1, 1>>
PersonB == <<1, 2>>
PersonC == <<1, 3>>
PersonD == <<2, 1>>
MissingPerson == <<9, 9>>

TreePersons ==
  { [id |-> PersonA, source_id |-> 1, gedcom_id |-> "@I1@"],
    [id |-> PersonB, source_id |-> 1, gedcom_id |-> "@I2@"],
    [id |-> PersonC, source_id |-> 1, gedcom_id |-> "@I3@"],
    [id |-> PersonD, source_id |-> 2, gedcom_id |-> "@I1@"] }

Relationship(k, sid, person1, person2, type) ==
  [ id |-> <<sid, 10 + k>>, source_id |-> sid, person1_id |-> person1,
    person2_id |-> person2, relationship_type |-> type ]

TreeRelationships ==
  { Relationship(1, 1, PersonA, PersonB, "parent-child"),
    Relationship(2, 1, PersonB, PersonA, "parent-child"),
    Relationship(3, 2, PersonB, PersonC, "spouse"),
    Relationship(4, 2, PersonC, PersonD, "parent-child"),
    Relationship(5, 1, PersonA, PersonA, "parent-child"),
    Relationship(6, 2, PersonD, PersonA, "sibling"),
    Relationship(7, 1, PersonC, PersonB, "parent-child"),
    Relationship(8, 1, PersonA, PersonC, "spouse") }

\* No import call has been made and every service is as constructed.
NoImport ==
  /\ calls = 0
  /\ pc = [i \in Services |-> "idle"]
  /\ upload = [i \in Services |-> NoUpload]
  /\ idx = [i \in Services |-> 0]
  /\ stats = [i \in Services |-> NewStats]
  /\ outcome = [i \in Services |-> NoOutcome]
  /\ existing = [i \in Services |-> NoId]
  /\ created = [i \in Services |-> NoId]
  /\ failed = [i \in Services |-> {}]
  /\ faults = 0
  /\ objseq = [i \in Services |-> 0]
  /\ source_record = [i \in Services |-> ServiceInit.source_record]
  /\ person_map = [i \in Services |-> ServiceInit.person_map]
  /\ place_cache = [i \in Services |-> ServiceInit.place_cache]
  /\ session = [i \in Services |-> ServiceInit.session]

\* The store after two completed imports whose rows are the persons above
\* and some of the relationships; no import is running.
FamilyInit ==
  /\ QueryInit
  /\ demo_persons = <<>>
  /\ sources = [s \in {1, 2} |->
                  mark_completed(Source(s, IF s = 1 THEN "family.ged" ELSE "cousins.ged",
                                        _calculate_file_hash(IF s = 1 THEN "family"
                                                             ELSE "cousins"),
                                        InitialStatus),
                                 Cardinality({p \in TreePersons : p.source_id = s}), 0)]
  /\ persons = TreePersons
  /\ relationships \in SUBSET TreeRelationships
  /\ events = {}
  /\ places = {}
  /\ sourceSeq = 2
  /\ removed = {}
  /\ NoImport


\* The rows of a result set as a list; no caller depends on the order.
RECURSIVE Rows(_)
Rows(S) == IF S = {} THEN <<>>
           ELSE LET x == CHOOSE y \in S : TRUE IN <<x>> \o Rows(S \ {x})

\* Relationship.get_other_person_id: the other endpoint, NoObj for None
\* A reading that follows a relationship from person1 to person2 only.
get_other_person_id_forward(rel, person_id) ==
  IF person_id = rel.person1_id THEN rel.person2_id ELSE NoObj

get_other_person_id(rel, person_id) ==
  IF person_id = rel.person1_id THEN rel.person2_id
  ELSE IF person_id = rel.person2_id THEN rel.person1_id
  ELSE NoObj

\* FamilyService._get_person_by_id: the persons with that id, of that
\* source when a source is given (scalar_one_or_none of a primary key)
_get_person_by_id(person_id, source_id) ==
  {p \in persons : p.id = person_id /\ (source_id # NoId => p.source_id = source_id)}

\* A query that asks for one endpoint only to be among the persons.
_get_relationships_between_persons_either(person_ids, source_id) ==
  {r \in relationships :
     /\ (r.person1_id \in person_ids \/ r.person2_id \in person_ids)
     /\ (source_id # NoId => r.source_id = source_id)}

\* FamilyService._get_relationships_between_persons
_get_relationships_between_persons(person_ids, source_id) ==
  {r \in relationships :
     /\ r.person1_id \in person_ids
     /\ r.person2_id \in person_ids
     /\ (source_id # NoId => r.source_id = source_id)}

\* The body of the loop of _get_related_persons for one generation
\* (lines 296-347): the persons of the frontier, then the next frontier.
NextGeneration(current, visited, source_id) ==
  LET rels == {r \in relationships :
                 r.person1_id \in current \/ r.person2_id \in current}
      others == {get_other_person_id(rel, person_id) :
                   rel \in rels, person_id \in current}
  IN {other_id \in others :
        /\ other_id # NoObj
        /\ other_id \notin visited
        /\ (source_id # NoId =>
              \E p \in persons : p.id = other_id /\ p.source_id = source_id)}

GenerationPersons(current, source_id) ==
  {p \in persons : p.id \in current /\ (source_id # NoId => p.source_id = source_id)}

\* get_family_tree, first part (lines 62-71): the focal person, or
\* ValueError when there is none; then _get_related_persons starts.
get_family_tree(focal_person_id, max_generations, source_id) ==
  /\ qpc = "idle"
  /\ request' = [op |-> "get_family_tree", focal_person_id |-> focal_person_id,
                 max_generations |-> max_generations, source_id |-> source_id]
  /\ IF _get_person_by_id(focal_person_id, source_id) = {} THEN
       /\ response' = [kind |-> "raised", exc |-> "ValueError",
                       text |-> <<"Person not found: ", ToString(focal_person_id)>>]
       /\ qpc' = "done"
       /\ UNCHANGED <<generation, visited_persons, current_generation, all_persons>>
     ELSE
       /\ qpc' = "related"
       /\ generation' = 0
       /\ visited_persons' = {}
       /\ current_generation' = {focal_person_id}
       /\ all_persons' = <<>>
       /\ UNCHANGED response
  /\ UNCHANGED <<dbvars, callvars, svcvars, demo_persons>>

\* A loop that goes on while the frontier is not empty, whatever the
\* number of generations done.
_get_related_persons_while ==
  /\ qpc = "related"
  /\ IF current_generation # {} THEN
       /\ all_persons' = all_persons
                           \o Rows(GenerationPersons(current_generation, request.source_id))
       /\ visited_persons' = visited_persons \cup current_generation
       /\ current_generation' =
            NextGeneration(current_generation, visited_persons \cup current_generation,
                           request.source_id)
       /\ generation' = generation + 1
       /\ UNCHANGED qpc
     ELSE
       /\ qpc' = "relationships"
       /\ UNCHANGED <<generation, visited_persons, current_generation, all_persons>>
  /\ UNCHANGED <<request, response, dbvars, callvars, svcvars, demo_persons>>

\* One pass of `for generation in range(max_generations)`, or its end.
_get_related_persons ==
  /\ qpc = "related"
  /\ IF generation < request.max_generations /\ current_generation # {} THEN
       /\ all_persons' = all_persons
                           \o Rows(GenerationPersons(current_generation, request.source_id))
       /\ visited_persons' = visited_persons \cup current_generation
       /\ current_generation' =
            NextGeneration(current_generation, visited_persons \cup current_generation,
                           request.source_id)
       /\ generation' = generation + 1
       /\ UNCHANGED qpc
     ELSE
       /\ qpc' = "relationships"
       /\ UNCHANGED <<generation, visited_persons, current_generation, all_persons>>
  /\ UNCHANGED <<request, response, dbvars, callvars, svcvars, demo_persons>>

\* get_family_tree, last part (lines 73-95): the relationships among the
\* persons collected, and the tree data.
TreeData ==
  /\ qpc = "relationships"
  /\ LET person_ids == {all_persons[k].id : k \in 1..Len(all_persons)}
         rels == _get_relationships_between_persons(person_ids, request.source_id)
     IN response' = [kind |-> "returned",
                     focal_person |-> request.focal_person_id,
                     persons |-> all_persons,
                     relationships |-> rels,
                     total_persons |-> Len(all_persons),
                     total_relationships |-> Cardinality(rels)]
  /\ qpc' = "done"
  /\ UNCHANGED <<request, generation, visited_persons, current_generation, all_persons,
                 dbvars, callvars, svcvars, demo_persons>>

SourceFilters == {NoId, 1, 2}

TreeNext ==
  \/ \E focal_person_id \in Ids(TreePersons) \cup {MissingPerson},
        max_generations \in 0..MaxGenerations, source_id \in SourceFilters :
       get_family_tree(focal_person_id, max_generations, source_id)
  \/ _get_related_persons
  \/ TreeData

SpecTree == FamilyInit /\ [][TreeNext]_vars

\* The event loop resumes a coroutine whose awaited query has returned.
SpecTreeFair ==
  FamilyInit /\ [][TreeNext]_vars /\ WF_vars(_get_related_persons) /\ WF_vars(TreeData)


\* ======================================================= FamilyDataService
\* The in-memory family of the demo backend: Person records with a list of
\* parents and a list of children, held in persons_dict.

\* The depth at which the interpreter stops a recursion with RecursionError.
RecursionLimit == 6

DemoIds == {"I1", "I2", "I3", "I4"}

\* The (child, parent) links a family may hold: I3 child of I1 and I2, both
\* children of I4, I1 child of I3 (a cycle), I4 its own parent, and a
\* parent id that names no person.
DemoParentLinks ==
  { <<"I3", "I1">>, <<"I3", "I2">>, <<"I1", "I4">>, <<"I2", "I4">>,
    <<"I1", "I3">>, <<"I4", "I4">>, <<"I2", "I9">> }

\* Person(id=, parents=[...], children=[...]) for a set of links
DemoFamily(links) ==
  [id \in DemoIds |->
     [ id |-> id,
       parents |-> Rows({l[2] : l \in {m \in links : m[1] = id}}),
       children |-> Rows({l[1] : l \in {m \in links : m[2] = id}}) ]]

\* FamilyDataService.get_person_by_id: persons_dict.get
get_person_by_id(P, person_id) ==
  IF person_id \in DOMAIN P THEN <<P[person_id]>> ELSE <<>>

\* FamilyDataService.get_ancestors / get_descendants: the list built by
\* the recursion over the field (parents or children), and whether the
\* recursion was stopped at depth RecursionLimit.
RECURSIVE Relatives(_, _, _, _), RelativesFrom(_, _, _, _, _)
Relatives(P, field, person_id, depth) ==
  IF depth > RecursionLimit THEN [raised |-> TRUE, list |-> <<>>]
  ELSE IF get_person_by_id(P, person_id) = <<>> THEN [raised |-> FALSE, list |-> <<>>]
  ELSE RelativesFrom(P, field, P[person_id][field], 1, depth)

\* the for loop over person.parents (person.children) from position k
RelativesFrom(P, field, ids, k, depth) ==
  IF k > Len(ids) THEN [raised |-> FALSE, list |-> <<>>]
  ELSE
    LET found == get_person_by_id(P, ids[k])
        below == IF found = <<>> THEN [raised |-> FALSE, list |-> <<>>]
                 ELSE Relatives(P, field, ids[k], depth + 1)
    IN IF below.raised THEN below
       ELSE LET rest == RelativesFrom(P, field, ids, k + 1, depth)
            IN [raised |-> rest.raised, list |-> found \o below.list \o rest.list]

get_ancestors(P, person_id) == Relatives(P, "parents", person_id, 1)
get_descendants(P, person_id) == Relatives(P, "children", person_id, 1)

\* FamilyDataService.__init__ with a family built from some of the links;
\* the relational store is empty.
DemoInit ==
  /\ QueryInit
  /\ demo_persons \in {DemoFamily(links) : links \in SUBSET DemoParentLinks}
  /\ sources = <<>>
  /\ persons = {}
  /\ relationships = {}
  /\ events = {}
  /\ places = {}
  /\ sourceSeq = 0
  /\ removed = {}
  /\ NoImport

\* api.get_ancestors / api.get_descendants (routes/api.py): the list of the
\* service as JSON; an exception of the service is not caught.  The
\* request records the number of generations the caller wants; neither the
\* route nor the service takes it.
DemoRelatives(op, person_id, generations) ==
  /\ qpc = "idle"
  /\ request' = [op |-> op, person_id |-> person_id, generations |-> generations]
  /\ LET r == IF op = "get_ancestors" THEN get_ancestors(demo_persons, person_id)
              ELSE get_descendants(demo_persons, person_id)
     IN response' = IF r.raised
                    THEN [kind |-> "raised", exc |-> "RecursionError", persons |-> <<>>]
                    ELSE [kind |-> "returned", exc |-> "", persons |-> r.list]
  /\ qpc' = "done"
  /\ UNCHANGED <<generation, visited_persons, current_generation, all_persons,
                 demo_persons, dbvars, callvars, svcvars>>

api_get_ancestors(person_id, generations) ==
  DemoRelatives("get_ancestors", person_id, generations)

api_get_descendants(person_id, generations) ==
  DemoRelatives("get_descendants", person_id, generations)

DemoNext ==
  \/ \E person_id \in DemoIds \cup {"I9"}, generations \in 0..MaxGenerations :
       api_get_ancestors(person_id, generations)
  \/ \E person_id \in DemoIds \cup {"I9"}, generations \in 0..MaxGenerations :
       api_get_descendants(person_id, generations)

SpecDemo == DemoInit /\ [][DemoNext]_vars


\* ============================================================ routes/persons
\* The person routes of the API. Each handler runs its whole body inside
\* one try statement that ends with `except ValueError` (answer 400) and
\* `except Exception` (answer 500).

\* The text of a person id in the URL: the text of a UUID, or not one.
UUIDText(id) == [ok |-> TRUE, id |-> id]
MalformedText == [ok |-> FALSE, id |-> <<0, 0>>]

PersonIdTexts ==
  {UUIDText(id) : id \in Ids(TreePersons) \cup {MissingPerson}} \cup {MalformedText}

HTTPResponse(status_code, detail) ==
  [kind |-> "http", status_code |-> status_code, detail |-> detail]

\* What is raised inside the try statement, as the except clauses turn it
\* into the answer: ValueError is answered 400, and every other exception,
\* the HTTPException of the handler's own `raise` included, is answered 500.
ExceptClauses(exc, detail, prefix) ==
  IF exc = "ValueError"
  THEN HTTPResponse(400, <<"Invalid person ID format">>)
  ELSE HTTPResponse(500, <<prefix>> \o detail)

\* db.query(Person).filter(Person.id == ...).first()
QueryPerson(id) == {p \in persons : p.id = id}

\* GET /{person_id}
get_person(text) ==
  /\ qpc = "idle"
  /\ request' = [op |-> "get_person", person_id |-> text]
  /\ response' =
       IF ~text.ok THEN
         ExceptClauses("ValueError", <<>>, "Error fetching person: ")
       ELSE IF QueryPerson(text.id) = {} THEN
         ExceptClauses("HTTPException", <<"404: ", "Person not found">>,
                       "Error fetching person: ")
       ELSE
         [kind |-> "http", status_code |-> 200, detail |-> <<>>,
          id |-> text.id]
  /\ qpc' = "done"
  /\ UNCHANGED <<generation, visited_persons, current_generation, all_persons,
                 dbvars, callvars, svcvars, demo_persons>>

\* GET /{person_id}/family-tree. The session that get_db hands to the
\* handler is a synchronous Session, and FamilyService awaits the result
\* of its execute: the first query of the service raises TypeError.
route_get_family_tree(text, generations) ==
  /\ qpc = "idle"
  /\ request' = [op |-> "route_get_family_tree", person_id |-> text,
                 generations |-> generations]
  /\ response' =
       IF ~text.ok THEN
         ExceptClauses("ValueError", <<>>, "Error fetching family tree: ")
       ELSE IF QueryPerson(text.id) = {} THEN
         ExceptClauses("HTTPException", <<"404: ", "Person not found">>,
                       "Error fetching family tree: ")
       ELSE
         ExceptClauses("TypeError", <<"object can't be used in 'await' expression">>,
                       "Error fetching family tree: ")
  /\ qpc' = "done"
  /\ UNCHANGED <<generation, visited_persons, current_generation, all_persons,
                 dbvars, callvars, svcvars, demo_persons>>

RouteNext ==
  \/ \E text \in PersonIdTexts : get_person(text)
  \/ \E text \in PersonIdTexts, generations \in 1..MaxGenerations :
       route_get_family_tree(text, generations)

\* The routes, and the service called by a caller of its own.
SpecRoutes == FamilyInit /\ [][RouteNext \/ TreeNext]_vars


\* ===================================================== get_relationship_path
\* FamilyService.get_relationship_path: the recursive query of lines
\* 218-252, evaluated as the database evaluates it. A row of
\* relationship_path has the columns person1_id, person2_id,
\* relationship_type, depth, path and rel_types. UNION ALL keeps equal rows
\* more than once; the set below keeps one of them, which LIMIT 1 cannot
\* tell apart.
MaxDepth == 3

InPath(id, path) == \E k \in 1..Len(path) : path[k] = id

\* The base case: the relationships that touch the start person, in the
\* direction in which they are stored.
BaseCase(start_person) ==
  { [person1_id |-> r.person1_id, person2_id |-> r.person2_id,
     relationship_type |-> r.relationship_type, depth |-> 1,
     path |-> <<r.person1_id, r.person2_id>>,
     rel_types |-> <<r.relationship_type>>] :
    r \in {x \in relationships :
             x.person1_id = start_person \/ x.person2_id = start_person} }

\* The recursive case over the rows of the previous round: the JOIN
\* condition, then the WHERE condition.
RecursiveCase(working, max_depth) ==
  { [person1_id |-> x[1].person1_id, person2_id |-> x[2].person2_id,
     relationship_type |-> x[2].relationship_type, depth |-> x[1].depth + 1,
     path |-> Append(x[1].path, x[2].person2_id),
     rel_types |-> Append(x[1].rel_types, x[2].relationship_type)] :
    x \in {y \in working \X relationships :
             /\ \/ /\ y[1].person2_id = y[2].person1_id
                   /\ ~InPath(y[2].person2_id, y[1].path)
                \/ /\ y[1].person2_id = y[2].person2_id
                   /\ ~InPath(y[2].person1_id, y[1].path)
             /\ y[1].depth < max_depth
             /\ ~(InPath(y[2].person2_id, y[1].path) \/ InPath(y[2].person1_id, y[1].path))} }

RECURSIVE relationship_path(_, _)
relationship_path(working, max_depth) ==
  IF working = {} THEN {}
  ELSE working \cup relationship_path(RecursiveCase(working, max_depth), max_depth)

\* SELECT * FROM relationship_path WHERE ... ORDER BY depth LIMIT 1: the
\* rows among which the database returns one.
PathRows(start_person, end_person, max_depth) ==
  LET rows == {row \in relationship_path(BaseCase(start_person), max_depth) :
                 row.person2_id = end_person \/ row.person1_id = end_person}
  IN {row \in rows : \A other \in rows : row.depth <= other.depth}

_build_relationship_path_details(path_row) ==
  << [person_id |-> path_row.person1_id,
      relationship_type |-> path_row.relationship_type,
      depth |-> path_row.depth] >>

\* The whole call: a path, or None (found = FALSE).
get_relationship_path(person1_id, person2_id, max_depth) ==
  /\ qpc = "idle"
  /\ request' = [op |-> "get_relationship_path", person1_id |-> person1_id,
                 person2_id |-> person2_id, max_depth |-> max_depth]
  /\ LET rows == PathRows(person1_id, person2_id, max_depth)
     IN IF rows = {}
        THEN response' = [kind |-> "returned", found |-> FALSE, path |-> <<>>]
        ELSE \E path_row \in rows :
               response' = [kind |-> "returned", found |-> TRUE,
                            path |-> _build_relationship_path_details(path_row)]
  /\ qpc' = "done"
  /\ UNCHANGED <<generation, visited_persons, current_generation, all_persons,
                 dbvars, callvars, svcvars, demo_persons>>

PathNext ==
  \E person1_id \in Ids(TreePersons) \cup {MissingPerson},
     person2_id \in Ids(TreePersons) \cup {MissingPerson},
     max_depth \in 0..MaxDepth :
    get_relationship_path(person1_id, person2_id, max_depth)

SpecPath == FamilyInit /\ [][PathNext]_vars


\* ============================================================ search_persons
\* FamilyService.search_persons and _calculate_search_relevance. A string
\* is the sequence of its characters.
MaxLimit == 3

\* Person.get_full_name
get_full_name(person) ==
  IF Truthy(person.given_names) /\ Truthy(person.surname)
  THEN strip(person.given_names) \o <<" ">> \o strip(person.surname)
  ELSE IF Truthy(person.given_names) THEN strip(person.given_names)
  ELSE IF Truthy(person.surname) THEN strip(person.surname)
  ELSE <<"U", "n", "k", "n", "o", "w", "n">>

\* _calculate_search_relevance, in half points: 10.0 is 20 and 0.5 is 1.
_calculate_search_relevance(person, query) ==
  IF strip(query) = <<>> THEN 0
  ELSE
    LET query_lower == strip(lower(query))
        full_name == lower(get_full_name(person))
    IN (IF query_lower = full_name THEN 20
        ELSE IF Contains(query_lower, full_name) THEN 10 ELSE 0)
       + (IF Truthy(person.given_names) /\ Contains(query_lower, lower(person.given_names))
          THEN 6 ELSE 0)
       + (IF Truthy(person.surname) /\ Contains(query_lower, lower(person.surname))
          THEN 6 ELSE 0)
       + (IF Truthy(person.nickname) /\ Contains(query_lower, lower(person.nickname))
          THEN 4 ELSE 0)
       + (IF person.birth_date THEN 1 ELSE 0)
       + (IF person.death_date \/ person.is_living THEN 1 ELSE 0)

\* column ILIKE '%term%'; a NULL column matches nothing.
ilike(column, term) == column # None /\ Contains(lower(term), lower(column))

\* func.coalesce(column, '')
coalesce(column) == IF column = None THEN <<>> ELSE column

\* The WHERE clause of the search (lines 118-135).
SearchConditions(person, query, source_id) ==
  /\ strip(query) # <<>> =>
       \/ ilike(person.given_names, strip(query))
       \/ ilike(person.surname, strip(query))
       \/ ilike(person.nickname, strip(query))
       \/ ilike(coalesce(person.given_names) \o <<" ">> \o coalesce(person.surname),
                strip(query))
  /\ source_id # NoId => person.source_id = source_id

\* list.sort(key=search_relevance, reverse=True): descending and stable.
RECURSIVE SortByRelevance(_)
SortByRelevance(person_data) ==
  IF person_data = <<>> THEN <<>>
  ELSE LET sorted == SortByRelevance(SubSeq(person_data, 1, Len(person_data) - 1))
           last == person_data[Len(person_data)]
           ahead == Cardinality({k \in 1..Len(sorted) :
                                   sorted[k].search_relevance >= last.search_relevance})
       IN SubSeq(sorted, 1, ahead) \o <<last>> \o SubSeq(sorted, ahead + 1, Len(sorted))

\* The sequences of n distinct rows of S: the orders in which the store
\* may return n of the matching rows.
RECURSIVE RowOrders(_, _)
RowOrders(S, n) ==
  IF n = 0 \/ S = {} THEN {<<>>}
  ELSE UNION {{<<row>> \o rest : rest \in RowOrders(S \ {row}, n - 1)} : row \in S}

SearchPerson(k, given_names, surname, nickname, birth_date, is_living) ==
  [ id |-> <<1, k>>, source_id |-> 1, given_names |-> given_names,
    surname |-> surname, nickname |-> nickname, birth_date |-> birth_date,
    death_date |-> FALSE, is_living |-> is_living ]

John == <<"J", "o", "h", "n">>
Johnny == <<"J", "o", "h", "n", "n", "y">>
Smith == <<"S", "m", "i", "t", "h">>
Smithson == <<"S", "m", "i", "t", "h", "s", "o", "n">>
Smithy == <<"S", "m", "i", "t", "h", "y">>

SearchPersons ==
  { SearchPerson(1, John, Smith, None, TRUE, TRUE),
    SearchPerson(2, Johnny, Smithson, None, TRUE, TRUE),
    SearchPerson(3, John, Smith, None, FALSE, FALSE),
    SearchPerson(4, None, Smith, None, TRUE, TRUE),
    SearchPerson(5, Johnny, John, Smith, FALSE, TRUE),
    SearchPerson(6, Smith, Smithson, Smithy, TRUE, TRUE),
    SearchPerson(7, None, Smith, None, FALSE, FALSE) }

SearchQueries == {Smith, lower(Smith) \o <<" ">>, John, John \o <<" ">> \o Smith, <<" ">>}

\* The store after one completed import of some of the persons above.
SearchInit ==
  /\ QueryInit
  /\ demo_persons = <<>>
  /\ persons \in SUBSET SearchPersons
  /\ sources = [s \in {1} |->
                  mark_completed(Source(s, "family.ged", _calculate_file_hash("family"),
                                        InitialStatus),
                                 Cardinality(persons), 0)]
  /\ relationships = {}
  /\ events = {}
  /\ places = {}
  /\ sourceSeq = 1
  /\ removed = {}
  /\ NoImport

search_persons(query, source_id, limit) ==
  /\ qpc = "idle"
  /\ request' = [op |-> "search_persons", query |-> query, source_id |-> source_id,
                 limit |-> limit]
  /\ LET matching == {p \in persons : SearchConditions(p, query, source_id)}
     IN \E rows \in RowOrders(matching, limit) :
          LET person_data ==
                [k \in 1..Len(rows) |->
                   [person |-> rows[k],
                    search_relevance |-> _calculate_search_relevance(rows[k], query)]]
          IN response' = [kind |-> "returned", persons |-> SortByRelevance(person_data)]
  /\ qpc' = "done"
  /\ UNCHANGED <<generation, visited_persons, current_generation, all_persons,
                 dbvars, callvars, svcvars, demo_persons>>

SearchNext ==
  \E query \in SearchQueries, source_id \in {NoId, 1}, limit \in 1..MaxLimit :
    search_persons(query, source_id, limit)

SpecSearch == SearchInit /\ [][SearchNext]_vars


\* ======================================================== records and dates
\* _parse_date and the reading of an INDI record, applied to the values a
\* GEDCOM file can hold.

\* The texts of DATE lines.
DateTexts ==
  { << <<Num(13, 2)>>, <<Letters("FEB")>>, <<Num(2013, 4)>> >>,
    << <<Num(13, 2)>>, <<Letters("February")>>, <<Num(2013, 4)>> >>,
    << <<Num(13, 2)>>, <<Letters("Feb"), Punct(",")>>, <<Num(2013, 4)>> >>,
    << <<Num(30, 2)>>, <<Letters("FEB")>>, <<Num(2013, 4)>> >>,
    << <<Letters("FEB")>>, <<Num(2013, 4)>> >>,
    << <<Num(2013, 4)>> >>,
    << <<Num(1400, 4)>> >>,
    << <<Num(13, 2)>> >>,
    << <<Num(13, 2), Punct("/"), Num(2, 2), Punct("/"), Num(2013, 4)>> >>,
    << <<Num(2, 2), Punct("/"), Num(2013, 4)>> >>,
    << <<Num(2013, 4), Punct("-"), Num(2, 2), Punct("-"), Num(13, 2)>> >>,
    << <<Letters("BET")>>, <<Num(1850, 4)>>, <<Letters("AND")>>, <<Num(1855, 4)>> >>,
    << <<Num(1850, 4)>>, <<Letters("TO")>>, <<Num(1860, 4)>> >>,
    << <<Num(1850, 4)>>, <<Punct("-")>>, <<Num(1860, 4)>> >>,
    << <<Letters("SOMETIME")>> >> }

\* The qualifiers of the GEDCOM date grammar, long and short, and two in
\* lower and mixed case.
DateQualifiers ==
  {"ABOUT", "ESTIMATED", "CALCULATED", "BEFORE", "AFTER",
   "ABT", "EST", "CAL", "BEF", "AFT", "abt", "Estimated"}

NameValues ==
  { None, <<>>, <<"J", "o", "h", "n", " ", "/", "S", "m", "i", "t", "h", "/">>, <<"M", "a", "r", "y">>, <<"/", "S", "m", "i", "t", "h", "/">>, <<" ">> }

SexValues ==
  { None, <<>>, <<"M">>, <<"F">>, <<"f">>, <<"X">>, <<"u", "n", "k", "n", "o", "w", "n">>, <<"m", "a", "l", "e">> }

Individuals ==
  { [name |-> name, sex |-> sex, birth_date |-> birth_date, death_date |-> death_date] :
      name \in NameValues, sex \in SexValues,
      birth_date \in {<<>>, << <<Num(1990, 4)>> >>, << <<Letters("SOMETIME")>> >>},
      death_date \in {<<>>, << <<Num(1950, 4)>> >>, << <<Letters("SOMETIME")>> >>} }

\* _parse_date of a DATE line with or without a qualifier before the date.
parse_date(qualifier, date_str) ==
  /\ qpc = "idle"
  /\ request' = [op |-> "_parse_date", qualifier |-> qualifier, date_str |-> date_str]
  /\ response' =
       [kind |-> "returned",
        date |-> _parse_date(IF qualifier = "" THEN date_str
                             ELSE << <<Letters(qualifier)>> >> \o date_str)]
  /\ qpc' = "done"
  /\ UNCHANGED <<generation, visited_persons, current_generation, all_persons,
                 dbvars, callvars, svcvars, demo_persons>>

\* The Person that _import_individual builds from one record.
build_person(individual) ==
  /\ qpc = "idle"
  /\ request' = [op |-> "_import_individual", individual |-> individual]
  /\ response' = [kind |-> "returned", person |-> PersonColumns(individual)]
  /\ qpc' = "done"
  /\ UNCHANGED <<generation, visited_persons, current_generation, all_persons,
                 dbvars, callvars, svcvars, demo_persons>>

ParseNext ==
  \/ \E qualifier \in DateQualifiers \cup {""}, date_str \in DateTexts \cup {<<>>} :
       parse_date(qualifier, date_str)
  \/ \E individual \in Individuals : build_person(individual)

SpecParse == Init /\ [][ParseNext]_vars

\* ------------------------------------------------------------ properties
Finished(i) == pc[i] = "done"

\* The committed rows that belong to source s.
RowsOf(s) ==
  {r \in persons \cup relationships \cup events \cup places : r.source_id = s}

\* C1: once an import of some bytes has completed, a later import of the
\* same bytes is rejected with a ValueError that refers to the id of the
\* first source, adds no Source, Person or Relationship and leaves the
\* first source's persons_count as it was.
C1_DuplicateRefersToSourceId ==
  [][\A i \in Services : \A s \in DOMAIN sources :
       ( /\ pc[i] = "check" /\ pc'[i] # "check"
         /\ session[i].active
         /\ sources[s].status = "completed"
         /\ sources[s].file_hash = _calculate_file_hash(upload[i].content) )
       => ( /\ outcome'[i].kind = "raised"
            /\ outcome'[i].exc = "ValueError"
            /\ ToString(s) \in Range(outcome'[i].text)
            /\ DOMAIN sources' = DOMAIN sources
            /\ persons' = persons
            /\ relationships' = relationships
            /\ sources'[s].persons_count = sources[s].persons_count )]_vars

\* C2: two calls that carry the same bytes are never both past the
\* duplicate check with the Source of neither created yet.
C2_CheckAndCreateAtomic ==
  \A i, j \in Services :
    (i # j /\ upload[i].content = upload[j].content)
      => ~(pc[i] = "create" /\ pc[j] = "create")

\* C3: no two Source rows of the store carry the same file_hash.
C3_FileHashUnique ==
  \A s, t \in DOMAIN sources :
    s # t => sources[s].file_hash # sources[t].file_hash

\* A second call with the bytes of an existing source was refused by the
\* unique constraint.
C3_Witness ==
  \E i \in Services : \E s \in DOMAIN sources :
    /\ Finished(i) /\ outcome[i].exc = "IntegrityError"
    /\ sources[s].file_hash = _calculate_file_hash(upload[i].content)

\* C4: when a record of the file failed (and no commit was made to fail
\* and the source was not deleted), the call returns normally, the Source
\* is completed and persons_imported counts the individuals that did not
\* fail.
C4_RecordFailureContained ==
  \A i \in Services :
    ( /\ Finished(i) /\ failed[i] # {}
      /\ created[i] \in DOMAIN sources
      /\ outcome[i].exc # "OperationalError" )
    => ( /\ outcome[i].kind = "returned"
         /\ sources[created[i]].status = "completed"
         /\ stats[i].persons_imported =
              Cardinality({k \in 1..Len(File(i).individuals) :
                             File(i).individuals[k].ptr \notin failed[i]}) )

\* C5: every record that failed has an entry with its GEDCOM id in the
\* errors list of the statistics.
C5_ErrorsListNamesRecord ==
  \A i \in Services :
    Finished(i) =>
      \A ptr \in failed[i] :
        \E k \in 1..Len(stats[i].errors) : ptr \in Range(stats[i].errors[k])

\* C6: when a call raised after it created its Source (and no delete
\* request removed the Source), the Source exists, is in status error and
\* has an error message.
C6_FailedImportMarkedError ==
  \A i \in Services :
    ( /\ Finished(i) /\ outcome[i].kind = "raised"
      /\ created[i] # NoId /\ created[i] \notin removed )
    => ( /\ created[i] \in DOMAIN sources
         /\ sources[created[i]].status = "error"
         /\ sources[created[i]].error_message # NoText )

\* C7: a call that raised and whose Source is in status error has left no
\* Person, Relationship, Event or Place of that Source in the store; and
\* the rows of a source become visible in one step: once some are
\* committed no further row of the source is added.
C7_NoPartialImport ==
  /\ [](\A i \in Services :
          ( /\ Finished(i) /\ outcome[i].kind = "raised"
            /\ created[i] \in DOMAIN sources
            /\ sources[created[i]].status = "error" )
          => RowsOf(created[i]) = {})
  /\ [][\A s \in DOMAIN sources :
          RowsOf(s) # {} => RowsOf(s)' \subseteq RowsOf(s)]_vars

\* An import failed after it had built persons, and its Source is in error.
C7_Witness ==
  \E i \in Services :
    /\ Finished(i) /\ outcome[i].kind = "raised"
    /\ created[i] \in DOMAIN sources
    /\ sources[created[i]].status = "error"
    /\ stats[i].persons_imported > 0

C9_CompletedIsTerminal ==
  [][\A s \in DOMAIN sources \cap DOMAIN sources' :
       sources[s].status = "completed" => sources'[s] = sources[s]]_vars

C11_RelationshipEndpointsSameSource ==
  \A r \in relationships :
    \A pid \in {r.person1_id, r.person2_id} :
      \E p \in persons : p.id = pid /\ p.source_id = r.source_id

\* C12: once a source has been deleted no Person, Relationship, Event or
\* Place with its source_id is in the store, and the step that deletes it
\* leaves every row owned by another source, and every other Source row,
\* as it was.
C12_DeleteCascadesOwnRowsOnly ==
  /\ [](\A s \in removed : RowsOf(s) = {})
  /\ [][\A s \in DOMAIN sources \ DOMAIN sources' :
          /\ \A t \in DOMAIN sources \ {s} :
               t \in DOMAIN sources' /\ sources'[t] = sources[t] /\ RowsOf(t)' = RowsOf(t)]_vars

\* C13: the tree data holds a relationship of the store exactly when both
\* of its endpoints are among the persons returned and, when a source
\* filter is given, it belongs to that source.
C13_RelationshipsAmongReturnedPersons ==
  (qpc = "done" /\ response.kind = "returned")
    => LET returned == {response.persons[k].id : k \in 1..Len(response.persons)}
       IN /\ response.relationships \subseteq relationships
          /\ \A r \in relationships :
               r \in response.relationships
                 <=> /\ {r.person1_id, r.person2_id} \subseteq returned
                     /\ (request.source_id # NoId => r.source_id = request.source_id)

\* A tree of two generations holds a relationship between two persons
\* other than the focal person: one the traversal did not follow.
C13_Witness ==
  /\ qpc = "done" /\ response.kind = "returned"
  /\ request.max_generations = 2
  /\ \E r \in response.relationships :
       /\ r.person1_id # r.person2_id
       /\ request.focal_person_id \notin {r.person1_id, r.person2_id}

\* C14: on every graph the traversal of get_family_tree makes at most
\* max_generations frontier expansions, and a traversal that has started
\* ends with a list of at most as many persons as the store holds.
C14_TraversalTerminates ==
  /\ [](qpc # "idle" => generation <= request.max_generations)
  /\ [][generation' # generation => generation' = generation + 1]_vars
  /\ (qpc = "related") ~> (qpc = "done" /\ response.kind = "returned"
                           /\ Len(response.persons) <= Cardinality(persons))

\* A traversal over a store with the cycle A parent of B, B parent of A and
\* the self-loop on A has ended after expanding two frontiers.
C14_Witness ==
  /\ qpc = "done" /\ response.kind = "returned"
  /\ generation = 2
  /\ \E r1, r2, r3 \in relationships :
       /\ r1.person1_id = PersonA /\ r1.person2_id = PersonB
       /\ r2.person1_id = PersonB /\ r2.person2_id = PersonA
       /\ r3.person1_id = PersonA /\ r3.person2_id = PersonA
  /\ request.focal_person_id = PersonA

\* C15: get_ancestors and get_descendants of FamilyDataService end with a
\* list on every family, also on one where a person is an ancestor of
\* itself.
C15_DemoTraversalTerminates ==
  (qpc = "done" /\ request.op \in {"get_ancestors", "get_descendants"})
    => response.kind = "returned"

\* The persons one hop away from a set of persons, and those between one
\* and n hops away, over the parents (children) lists.
DemoHop(S, field) ==
  {y \in DOMAIN demo_persons :
     \E x \in S \cap DOMAIN demo_persons : y \in Range(demo_persons[x][field])}

RECURSIVE DemoWithin(_, _, _)
DemoWithin(S, n, field) ==
  IF n = 0 THEN {}
  ELSE DemoHop(S, field) \cup DemoWithin(DemoHop(S, field), n - 1, field)

\* C16: the list that Ancestors(p, n) or Descendants(p, n) returns holds
\* exactly the persons between one and n parent (child) hops away from p,
\* each once; with n = 0 it is empty.
C16_RelativesWithinGenerations ==
  ( /\ qpc = "done" /\ request.op \in {"get_ancestors", "get_descendants"}
    /\ response.kind = "returned" )
    => LET field == IF request.op = "get_ancestors" THEN "parents" ELSE "children"
           ids == {response.persons[k].id : k \in 1..Len(response.persons)}
       IN /\ ids = DemoWithin({request.person_id}, request.generations, field)
          /\ Len(response.persons) = Cardinality(ids)


\* C17: a person lookup or a family-tree request for a person id that does
\* not exist ends as not found (ValueError "Person not found" from the
\* service, 404 from the route), never as an internal error (500) and never
\* as a result.
C17_MissingPersonIsNotFound ==
  /\ ( /\ qpc = "done" /\ request.op = "get_family_tree"
       /\ _get_person_by_id(request.focal_person_id, request.source_id) = {} )
       => ( /\ response.kind = "raised" /\ response.exc = "ValueError"
            /\ response.text[1] = "Person not found: " )
  /\ ( /\ qpc = "done" /\ request.op \in {"get_person", "route_get_family_tree"}
       /\ request.person_id.ok /\ QueryPerson(request.person_id.id) = {} )
       => response.status_code = 404

\* The persons one relationship away from a person of S, the relationship
\* taken in either direction.
Neighbours(S) ==
  {r.person2_id : r \in {x \in relationships : x.person1_id \in S}}
    \cup {r.person1_id : r \in {x \in relationships : x.person2_id \in S}}

\* The persons at most n hops away from a person of S.
RECURSIVE WithinHops(_, _)
WithinHops(S, n) ==
  IF n = 0 THEN S ELSE WithinHops(S \cup Neighbours(S), n - 1)

\* C18: for distinct persons a and b, get_relationship_path(a, b,
\* max_depth) returns a path exactly when b is at most max_depth hops away
\* from a over relationships taken in either direction, and the depth it
\* reports is the smallest such number of hops.
C18_ShortestPathWithinDepth ==
  ( /\ qpc = "done" /\ request.op = "get_relationship_path"
    /\ request.person1_id # request.person2_id )
    => /\ response.found
         <=> request.person2_id \in WithinHops({request.person1_id}, request.max_depth)
       /\ response.found
         => /\ request.person2_id \in WithinHops({request.person1_id}, response.path[1].depth)
            /\ request.person2_id
                 \notin WithinHops({request.person1_id}, response.path[1].depth - 1)

\* C19: a relationship-path request whose two person ids are equal is
\* rejected: it never returns a path.
C19_SamePersonReturnsNoPath ==
  ( /\ qpc = "done" /\ request.op = "get_relationship_path"
    /\ request.person1_id = request.person2_id )
    => ~(response.kind = "returned" /\ response.found)

\* The boost of _calculate_search_relevance for a complete record.
Completeness(person) ==
  (IF person.birth_date THEN 1 ELSE 0)
    + (IF person.death_date \/ person.is_living THEN 1 ELSE 0)

\* C20: whatever the order in which the store returns the candidates,
\* search_persons ranks a person whose surname equals the query above an
\* equally complete person whose surname only contains the query as a
\* proper substring.
C20_ExactSurnameRanksFirst ==
  (qpc = "done" /\ request.op = "search_persons")
    => \A i, j \in 1..Len(response.persons) :
         LET exact == response.persons[i].person
             partial == response.persons[j].person
             q == strip(lower(request.query))
         IN ( /\ lower(exact.surname) = q
              /\ lower(partial.surname) # q
              /\ Contains(q, lower(partial.surname))
              /\ Completeness(exact) = Completeness(partial) )
              => i < j

\* C21: in the result of a search, a person whose full name equals the
\* query, letter case apart, has a strictly higher relevance than every
\* person whose full name does not equal it.
C21_ExactFullNameScoresHighest ==
  (qpc = "done" /\ request.op = "search_persons")
    => \A i, j \in 1..Len(response.persons) :
         LET q == strip(lower(request.query))
         IN ( /\ lower(get_full_name(response.persons[i].person)) = q
              /\ lower(get_full_name(response.persons[j].person)) # q )
              => response.persons[i].search_relevance
                   > response.persons[j].search_relevance

\* C22: the Person built from an INDI record has gender M, F or U: a SEX
\* value other than M or F, in any letter case, is stored as U, and
\* is_valid_gender holds.
C22_GenderNormalised ==
  (qpc = "done" /\ request.op = "_import_individual")
    => /\ is_valid_gender(response.person)
       /\ ( /\ Truthy(request.individual.sex)
            /\ upper(request.individual.sex) \notin {<<"M">>, <<"F">>} )
            => response.person.gender = <<"U">>

\* C23: a Person built from a record with neither a birth date nor a death
\* date is not marked living.
C23_NoDatesNotLiving ==
  ( /\ qpc = "done" /\ request.op = "_import_individual"
    /\ ~response.person.birth_date.ok /\ ~response.person.death_date.ok )
    => ~response.person.is_living

\* C25: for every qualifier and every date text d that _parse_date turns
\* into a date D, _parse_date of the qualifier followed by d returns D.
C25_QualifierKeepsDate ==
  ( /\ qpc = "done" /\ request.op = "_parse_date" /\ request.qualifier # ""
    /\ _parse_date(request.date_str).ok )
    => /\ response.kind = "returned"
       /\ response.date = _parse_date(request.date_str)

\* C24: an upload of no bytes is refused by upload_gedcom_file with a
\* client error (400) before parse_and_import_file is called: the request
\* is over at once, and no Source is ever created for it, committed or
\* pending.
C24_EmptyUploadRejected ==
  /\ \A i \in Services :
       upload[i] = EmptyFile
         => /\ pc[i] = "done"
            /\ outcome[i] = Raised("HTTPException", <<"400: ", "Empty file uploaded">>)
            /\ created[i] = NoId
            /\ session[i] = NewSession
  /\ \A s \in DOMAIN sources :
       sources[s].file_hash # _calculate_file_hash(EmptyFile.content)

C24_Witness ==
  \E i \in Services :
    /\ upload[i] = EmptyFile /\ pc[i] = "done"
    /\ \E j \in Services : j # i /\ pc[j] = "done" /\ upload[j] # EmptyFile
                           /\ outcome[j].kind = "returned"

\* The call of service i has returned, nothing has failed, and its Source
\* is in the store, completed.
CompletedCleanly(i) ==
  /\ pc[i] = "done" /\ outcome[i].kind = "returned" /\ faults = 0
  /\ created[i] \in DOMAIN sources
  /\ sources[created[i]].status = "completed"

\* C26: an INDI record whose NAME line is missing, empty or without a
\* surname delimiter is imported and counted in persons_imported like the
\* other records of its file: the name parts it lacks are stored as null,
\* and get_full_name is "Unknown" when both are.
C26_NamelessRecordImported ==
  \A i \in Services :
    CompletedCleanly(i)
      => /\ stats[i].persons_imported = Len(File(i).individuals)
         /\ \A k \in 1..Len(File(i).individuals) :
              LET individual == File(i).individuals[k]
                  rows == {p \in persons : /\ p.source_id = created[i]
                                            /\ p.gedcom_id = individual.ptr}
              IN /\ rows # {}
                 /\ \A p \in rows :
                      /\ ~Truthy(individual.name)
                           => /\ p.given_names = None /\ p.surname = None
                              /\ get_full_name(p) = <<"U", "n", "k", "n", "o", "w", "n">>
                      /\ (Truthy(individual.name) /\ ~Contains(<<"/">>, individual.name))
                           => /\ p.given_names = strip(individual.name)
                              /\ p.surname = None

C26_Witness ==
  \E i \in Services :
    /\ CompletedCleanly(i)
    /\ \E k \in 1..Len(File(i).individuals) : File(i).individuals[k].name = None
    /\ \E k \in 1..Len(File(i).individuals) : File(i).individuals[k].name = <<>>

\* The persons one relationship of any type away from a person of S, in
\* either direction; of the given source only, when a source is given.
TreeNeighbours(S, source_id) ==
  {p.id : p \in {q \in persons :
                   /\ source_id # NoId => q.source_id = source_id
                   /\ \E r \in relationships :
                        \/ r.person1_id \in S /\ r.person2_id = q.id
                        \/ r.person2_id \in S /\ r.person1_id = q.id}}

\* The persons at most n such hops away from a person of S.
RECURSIVE TreeWithin(_, _, _)
TreeWithin(S, n, source_id) ==
  IF n = 0 THEN S ELSE TreeWithin(S \cup TreeNeighbours(S, source_id), n - 1, source_id)

\* C27: for an existing focal person and max_generations = g >= 1,
\* get_family_tree returns exactly the persons at most g - 1 hops away
\* from the focal person, over relationships of every type in either
\* direction and, with a source filter, through persons of that source
\* only; each person once, the focal person among them.
C27_TreeHoldsPersonsWithinGenerations ==
  ( /\ qpc = "done" /\ request.op = "get_family_tree"
    /\ response.kind = "returned" /\ request.max_generations >= 1 )
    => LET returned == {response.persons[k].id : k \in 1..Len(response.persons)}
       IN /\ returned = TreeWithin({request.focal_person_id},
                                   request.max_generations - 1, request.source_id)
          /\ Len(response.persons) = Cardinality(returned)
          /\ request.focal_person_id \in returned

\* A tree of three generations under a source filter that holds a person
\* two hops away, reached against the stored direction, and leaves out a
\* person that the unfiltered graph has within reach.
C27_Witness ==
  /\ qpc = "done" /\ request.op = "get_family_tree" /\ response.kind = "returned"
  /\ request.max_generations = 3 /\ request.source_id = 1
  /\ request.focal_person_id = PersonA
  /\ \E k \in 1..Len(response.persons) :
       /\ response.persons[k].id = PersonC
       /\ PersonC \notin TreeWithin({PersonA}, 1, 1)
  /\ \E r \in relationships : r.person2_id = PersonA /\ r.person1_id = PersonB
  /\ PersonD \in TreeWithin({PersonA}, 2, NoId)

\* C28: search_persons returns the limit most relevant matches: no person
\* that matches the search and is left out of the result has a strictly
\* higher relevance than a person that is returned.
C28_MostRelevantReturned ==
  (qpc = "done" /\ request.op = "search_persons")
    => LET returned == {response.persons[k].person : k \in 1..Len(response.persons)}
       IN \A p \in persons :
            (SearchConditions(p, request.query, request.source_id) /\ p \notin returned)
              => \A k \in 1..Len(response.persons) :
                   _calculate_search_relevance(p, request.query)
                     <= response.persons[k].search_relevance

\* C29: after any sequence of imports, every Event that has a place
\* refers to a Place owned by the Source that owns the Event.
C29_EventPlaceSameSource ==
  \A e \in events :
    e.place_id # NoObj
      => \E p \in places : p.id = e.place_id /\ p.source_id = e.source_id

\* The numbers of Person and Relationship rows of source s in a store.
PersonRows(rows, s) == Cardinality({p \in rows : p.source_id = s})
RelationshipRows(rows, s) == Cardinality({r \in rows : r.source_id = s})

====
